---- MODULE Spec2Model ----
(***************************************************************************)
(* Customer Account API authentication (OAuth 2.0 authorization code flow  *)
(* with PKCE): the three route loaders (auth, callback, order-list), the   *)
(* two Prisma tables they use and the cookie session helpers.              *)
(*                                                                         *)
(* A loader is an async function: it runs without interruption from one   *)
(* await to the next.  An action below is one such segment: the effect of  *)
(* the awaited storage or network call, followed by the code up to the     *)
(* next await (or to the return).  Requests interleave at the awaits.      *)
(***************************************************************************)
EXTENDS Integers, Sequences, FiniteSets, TLC

\* ---------------------------------------------------------------- bounds

\* Number of inbound requests of a run.
MaxRequests == 3
\* The clock stops at MaxTime seconds.
MaxTime == 3600

\* ------------------------------------------------------------- constants

\* sessions.server.js: maxAge: 60 * 60
SessionMaxAge == 60 * 60
\* The clock advances in steps of half a session lifetime.
TickStep == SessionMaxAge \div 2

Requests == 1..MaxRequests

\* JavaScript's null / undefined for a string-valued parameter.
Null == "<null>"
\* Values of the query parameter `code`: absent, present.
Codes == {Null, "abc"}
\* Values generateState() can return, and the callback's `state` parameter.
States == {"S1", "S2"}
StateParams == States \cup {Null}
\* Answers of a fetch: response.ok and response.statusText.
HttpResponses ==
    { [ok |-> TRUE, statusText |-> "OK"],
      [ok |-> FALSE, statusText |-> "Internal Server Error"] }
\* An optional value: <<>> is null/undefined, <<x>> is x.
None == <<>>
Some(x) == <<x>>
\* expires_in of a token endpoint answer: omitted, or a lifetime in seconds
\* (none, one shorter and one longer than the session's).
ExpiresIn == {None, Some(0), Some(1), Some(2 * SessionMaxAge)}
Shop == "shop.example"

\* ---------------------------------------------------------- error texts

ErrMissingParam == <<"Missing code or state parameter">>
ErrInvalidState == <<"Invalid state parameter or code verifier not found">>
ErrOpenId(statusText) == <<"Failed to fetch OpenID configuration: ", statusText>>
ErrExchange(statusText) == <<"Token exchange failed: ", statusText, " - ", "body">>
ErrNoAuth == <<"No customer authentication found. Please authenticate first.">>
ErrTokenNotFound == <<"Access token not found">>
ErrExpired == <<"Access token has expired">>
ErrApiConfig(statusText) ==
    <<"Failed to fetch Customer Account API configuration: ", statusText>>
\* Errors thrown by the libraries the loaders await.
ErrFetch == <<"fetch failed">>
ErrStorage == <<"database error">>
ErrUnique == <<"Unique constraint failed on the fields: (state)">>
ErrDeleteMissing == <<"Record to delete does not exist.">>

\* ------------------------------------------------------------ PKCE helper

\* generateCodeVerifier: 32 random bytes; the call made by request r returns
\* a value no other call returns.
generateCodeVerifier(r) == <<"verifier", r>>

\* generateCodeChallenge: base64url(SHA-256(verifier)), a deterministic
\* collision-free function of the verifier.
generateCodeChallenge(verifier) == <<"sha256">> \o verifier

\* ---------------------------------------------------------------- state

VARIABLES
    req,                  \* req[r]: the request r, its position and locals
    codeVerifier,         \* table CodeVerifier: set of [id, state, verifier]
    customerAccessToken,  \* table CustomerAccessToken: set of records
    jar,                  \* the browser's __customer_session cookie
    now                   \* the clock, in seconds

vars == <<req, codeVerifier, customerAccessToken, jar, now>>

\* No cookie / an empty session.
NoCookie == [customerTokenId |-> 0, issued |-> 0]
\* findUnique's null.
NoRecord == [id |-> 0, state |-> Null, verifier |-> None]
NoToken == [id |-> 0, shop |-> Null, accessToken |-> None, expiresAt |-> None]
NoResponse == [kind |-> "none"]
NoTokenRequest == [code |-> Null, code_verifier |-> None]
NoTokenData == [access_token |-> None, expires_in |-> None]

\* A request: what it presents (code, state, tokenId), its position (pc),
\* the loader's local variables, and what it has done so far (log, thrown).
\* The locals go when the loader returns.
Idle ==
    [ kind |-> "none", pc |-> "idle",
      code |-> Null, state |-> Null,      \* callback: query parameters
      codeVerifierRecord |-> NoRecord,    \* callback: the record found
      tokenRequest |-> NoTokenRequest,    \* callback: body of the token POST
      tokenData |-> NoTokenData,          \* callback: the token endpoint's answer
      expiresAt |-> None,                 \* callback: computed expiry
      created |-> 0,                      \* callback: customerAccessToken.id
      tokenId |-> 0,                      \* order-list: tokenId of the session
      token |-> NoToken,                  \* order-list: the record read
      gen |-> NoRecord,                   \* auth: generated state and verifier
      log |-> <<>>,                       \* what the request has done, in order
      thrown |-> None,                    \* the error raised, if any
      resp |-> NoResponse ]

Init ==
    /\ req = [r \in Requests |-> Idle]
    /\ codeVerifier = {}
    /\ customerAccessToken = {}
    /\ jar = NoCookie
    /\ now = 0

\* --------------------------------------------------------------- storage

\* prisma.codeVerifier.findUnique({ where: { state } }): the record read ...
VerifierFindUnique(table, state) ==
    IF \E rec \in table : rec.state = state
    THEN CHOOSE rec \in table : rec.state = state
    ELSE NoRecord

\* A lookup that consumes the record it reads.
VerifierAfterFindUnique_Consume(table, state) ==
    {rec \in table : rec.state # state}

\* ... and the table after the read.
VerifierAfterFindUnique(table, state) == table

\* A store without the unique index.
VerifierCreateAllowed_Always(table, state) == TRUE

\* prisma.codeVerifier.create: the unique index on "state" rejects a second
\* record with the same state.
VerifierCreateAllowed(table, state) == \A rec \in table : rec.state # state

\* A create that writes nothing.
VerifierCreate_Noop(table, data) == table

VerifierCreate(table, data) == table \cup {data}

\* A delete that removes nothing.
VerifierDelete_Noop(table, state) == table

\* prisma.codeVerifier.delete({ where: { state } })
VerifierDelete(table, state) == {rec \in table : rec.state # state}

\* A create that replaces the table's records.
TokenCreate_Replace(table, id, accessToken, expiresAt) ==
    {[id |-> id, shop |-> Shop, accessToken |-> accessToken,
      expiresAt |-> expiresAt]}

\* prisma.customerAccessToken.create
TokenCreate(table, id, accessToken, expiresAt) ==
    table \cup {[id |-> id, shop |-> Shop, accessToken |-> accessToken,
                 expiresAt |-> expiresAt]}

\* A lookup that answers with some record when none has the id.
TokenFindUnique_Any(table, id) ==
    IF table # {} THEN CHOOSE t \in table : TRUE ELSE NoToken

\* prisma.customerAccessToken.findUnique({ where: { id } })
TokenFindUnique(table, id) ==
    IF \E t \in table : t.id = id
    THEN CHOOSE t \in table : t.id = id
    ELSE NoToken

\* --------------------------------------------------------------- session

\* A cookie that lives as long as the token it references.
CookieHeader_UntilTokenExpiry ==
    IF /\ jar # NoCookie
       /\ \A t \in customerAccessToken :
             t.id = jar.customerTokenId
             => (t.expiresAt = None \/ now <= t.expiresAt[1])
    THEN jar ELSE NoCookie

\* The Cookie header of a request: the browser presents the cookie while it
\* is younger than maxAge.
CookieHeader ==
    IF jar # NoCookie /\ now < jar.issued + SessionMaxAge THEN jar ELSE NoCookie

\* getCustomerTokenId(request): session.get("customerTokenId")
getCustomerTokenId(cookie) == cookie.customerTokenId

\* A session bound to an id other than the one given.
setCustomerTokenId_Other(cookie, tokenId) ==
    [customerTokenId |-> tokenId + 1, issued |-> now]

\* setCustomerTokenId(request, tokenId): the Set-Cookie header
setCustomerTokenId(cookie, tokenId) ==
    [customerTokenId |-> tokenId, issued |-> now]

\* ------------------------------------------------------------- responses

Redirect(location, cookie) ==
    [kind |-> "redirect", location |-> location, setCookie |-> cookie]
Data(data) == [kind |-> "data", data |-> data]

\* catch (error) of the auth loader
AuthCatch(error) == Data([error |-> error])
\* A catch block that answers as if nothing had failed.
CallbackCatch_Swallow(error) == Data([success |-> TRUE])

\* catch (error) of the callback loader
CallbackCatch(error) == Data([success |-> FALSE, error |-> error])
\* catch (error) of the order-list loader
OrderListCatch(error) == Data([success |-> FALSE, error |-> error])

Catch(kind, error) ==
    CASE kind = "auth" -> AuthCatch(error)
      [] kind = "callback" -> CallbackCatch(error)
      [] OTHER -> OrderListCatch(error)

\* The loader of request q returns resp: its locals go.
Return(q, resp) ==
    [Idle EXCEPT !.kind = q.kind, !.pc = "done",
                 !.code = q.code, !.state = q.state, !.tokenId = q.tokenId,
                 !.log = q.log, !.thrown = q.thrown, !.resp = resp]

\* `error` is thrown inside the try block of request q's loader.
Throw(q, error) ==
    Return([q EXCEPT !.thrown = Some(error)], Catch(q.kind, error))

\* A call that is made a second time.
Did_Twice(q, what) == [q EXCEPT !.log = Append(Append(@, what), what)]

Did(q, what) == [q EXCEPT !.log = Append(@, what)]

\* A request arrives when the ones before it have.
CanArrive(r) ==
    /\ req[r].pc = "idle"
    /\ \A q \in Requests : q < r => req[q].pc # "idle"

Arrived(kind) == [Idle EXCEPT !.kind = kind]

\* JavaScript's !x for a string or null.
Falsy(x) == x = Null \/ x = ""

\* The status of the response is not looked at.
NotOk_Ignored(response) == FALSE

\* if (!response.ok)
NotOk(response) == ~response.ok

\* The request q after its fetch is answered by `response`.
Fetched(q, response) == Did(q, response.statusText)

\* -------------------------------------------------------- auth loader

\* GET /customer-account-api/auth: up to the await of the discovery fetch.
AuthArrive(r) ==
    /\ CanArrive(r)
    /\ req' = [req EXCEPT ![r] =
                 Did([Arrived("auth") EXCEPT !.pc = "disc"], "discovery")]
    /\ UNCHANGED <<codeVerifier, customerAccessToken, jar, now>>

\* The PKCE parameters are generated; prisma.codeVerifier.create is awaited.
AuthGenerate(q, r, state) ==
    [q EXCEPT !.pc = "store",
              !.gen = [id |-> r, state |-> state,
                       verifier |-> generateCodeVerifier(r)]]

\* The discovery fetch returns.
AuthDiscovery(r) ==
    /\ req[r].kind = "auth" /\ req[r].pc = "disc"
    /\ \/ req' = [req EXCEPT ![r] = Throw(req[r], ErrFetch)]
       \/ \E response \in HttpResponses, s \in States :
            LET q == Fetched(req[r], response)
            IN  req' = [req EXCEPT ![r] =
                          IF NotOk(response)
                          THEN Throw(q, ErrOpenId(response.statusText))
                          ELSE AuthGenerate(q, r, s)]
    /\ UNCHANGED <<codeVerifier, customerAccessToken, jar, now>>

\* The authorization URL of the redirect.
AuthUrl(state, verifier) ==
    [ response_type |-> "code",
      scope |-> "openid email customer-account-api:full",
      state |-> state,
      code_challenge |-> generateCodeChallenge(verifier),
      code_challenge_method |-> "S256" ]

\* prisma.codeVerifier.create returns; the redirect is built and returned.
AuthStore(r) ==
    /\ req[r].kind = "auth" /\ req[r].pc = "store"
    /\ \/ /\ req' = [req EXCEPT ![r] = Throw(req[r], ErrStorage)]
          /\ UNCHANGED codeVerifier
       \/ /\ ~VerifierCreateAllowed(codeVerifier, req[r].gen.state)
          /\ req' = [req EXCEPT ![r] = Throw(req[r], ErrUnique)]
          /\ UNCHANGED codeVerifier
       \/ /\ VerifierCreateAllowed(codeVerifier, req[r].gen.state)
          /\ codeVerifier' = VerifierCreate(codeVerifier, req[r].gen)
          /\ req' = [req EXCEPT ![r] =
                       Return(Did(req[r], "stored"),
                              Redirect(AuthUrl(req[r].gen.state,
                                               req[r].gen.verifier),
                                       NoCookie))]
    /\ UNCHANGED <<customerAccessToken, jar, now>>

\* ---------------------------------------------------- callback loader

\* Only the code is checked.
MissingParams_CodeOnly(code, state) == Falsy(code)

\* if (!code || !state)
MissingParams(code, state) == Falsy(code) \/ Falsy(state)

\* GET /customer-account-api/callback?code=..&state=..: the parameters are
\* extracted and checked; prisma.codeVerifier.findUnique is awaited.
CallbackArrive(r) ==
    /\ CanArrive(r)
    /\ \E code \in Codes, state \in StateParams :
         LET q == [Arrived("callback") EXCEPT !.code = code, !.state = state]
         IN  req' = [req EXCEPT ![r] =
                       IF MissingParams(code, state)
                       THEN Throw(q, ErrMissingParam)
                       ELSE [q EXCEPT !.pc = "find"]]
    /\ UNCHANGED <<codeVerifier, customerAccessToken, jar, now>>

\* The null check is left out.
VerifierMissing_Skipped(rec) == FALSE

\* if (!codeVerifierRecord)
VerifierMissing(rec) == rec = NoRecord

\* findUnique returns; the discovery fetch is awaited.
CallbackFind(r) ==
    /\ req[r].kind = "callback" /\ req[r].pc = "find"
    /\ \/ /\ req' = [req EXCEPT ![r] = Throw(req[r], ErrStorage)]
          /\ UNCHANGED codeVerifier
       \/ LET rec == VerifierFindUnique(codeVerifier, req[r].state)
          IN  /\ req' = [req EXCEPT ![r] =
                           IF VerifierMissing(rec)
                           THEN Throw(Did(req[r], "notfound"), ErrInvalidState)
                           ELSE Did(Did([req[r] EXCEPT !.pc = "disc",
                                                 !.codeVerifierRecord = rec],
                                        "resolved"), "discovery")]
              /\ codeVerifier' =
                    VerifierAfterFindUnique(codeVerifier, req[r].state)
    /\ UNCHANGED <<customerAccessToken, jar, now>>

\* A token POST without the verifier.
TokenRequest_NoVerifier(code, rec) == [code |-> code, code_verifier |-> None]

\* The body of the token POST.
TokenRequest(code, rec) == [code |-> code, code_verifier |-> rec.verifier]

\* The discovery fetch returns; the token POST is awaited.
CallbackDiscovery(r) ==
    /\ req[r].kind = "callback" /\ req[r].pc = "disc"
    /\ \/ req' = [req EXCEPT ![r] = Throw(req[r], ErrFetch)]
       \/ \E response \in HttpResponses :
            LET q == Fetched(req[r], response)
            IN  req' = [req EXCEPT ![r] =
                          IF NotOk(response)
                          THEN Throw(q, ErrOpenId(response.statusText))
                          ELSE Did([q EXCEPT !.pc = "exch",
                                      !.tokenRequest =
                                          TokenRequest(q.code,
                                                       q.codeVerifierRecord)],
                                   "exchange")]
    /\ UNCHANGED <<codeVerifier, customerAccessToken, jar, now>>

\* tokenData.expires_in ? new Date(Date.now() + expires_in * 1000) : null
\* (times are in seconds here); 0 is falsy.
Truthy(opt) == opt # None /\ opt[1] # 0
ExpiresAt(expires_in) ==
    IF Truthy(expires_in) THEN Some(now + expires_in[1]) ELSE None

\* The access token the provider issues to the exchange of request r.
ProviderToken(r) == <<"token", r>>

\* The token POST returns; the expiry is computed and
\* prisma.customerAccessToken.create is awaited.
CallbackExchange(r) ==
    /\ req[r].kind = "callback" /\ req[r].pc = "exch"
    /\ \/ req' = [req EXCEPT ![r] = Throw(req[r], ErrFetch)]
       \/ \E response \in HttpResponses, expires_in \in ExpiresIn :
            LET q == Fetched(req[r], response)
                tokenData == [access_token |-> ProviderToken(r),
                              expires_in |-> expires_in]
            IN  req' = [req EXCEPT ![r] =
                          IF NotOk(response)
                          THEN Throw(q, ErrExchange(response.statusText))
                          ELSE [q EXCEPT !.pc = "create",
                                         !.tokenData = tokenData,
                                         !.expiresAt = ExpiresAt(expires_in)]]
    /\ UNCHANGED <<codeVerifier, customerAccessToken, jar, now>>

\* create returns; prisma.codeVerifier.delete is awaited.
CallbackCreate(r) ==
    /\ req[r].kind = "callback" /\ req[r].pc = "create"
    /\ \/ /\ req' = [req EXCEPT ![r] = Throw(req[r], ErrStorage)]
          /\ UNCHANGED customerAccessToken
       \/ /\ customerAccessToken' =
                TokenCreate(customerAccessToken, r,
                            req[r].tokenData.access_token, req[r].expiresAt)
          /\ req' = [req EXCEPT ![r] =
                       Did([req[r] EXCEPT !.pc = "delete", !.created = r],
                           "persisted")]
    /\ UNCHANGED <<codeVerifier, jar, now>>

\* delete returns (it throws when no record has the state);
\* setCustomerTokenId is awaited.
CallbackDelete(r) ==
    /\ req[r].kind = "callback" /\ req[r].pc = "delete"
    /\ \/ /\ req' = [req EXCEPT ![r] = Throw(req[r], ErrStorage)]
          /\ UNCHANGED codeVerifier
       \/ /\ VerifierFindUnique(codeVerifier, req[r].state) = NoRecord
          /\ req' = [req EXCEPT ![r] = Throw(req[r], ErrDeleteMissing)]
          /\ UNCHANGED codeVerifier
       \/ /\ VerifierFindUnique(codeVerifier, req[r].state) # NoRecord
          /\ codeVerifier' = VerifierDelete(codeVerifier, req[r].state)
          /\ req' = [req EXCEPT ![r] =
                       Did([req[r] EXCEPT !.pc = "bind"], "deleted")]
    /\ UNCHANGED <<customerAccessToken, jar, now>>

\* setCustomerTokenId returns the Set-Cookie header; the redirect to the
\* order list carries it, and the browser keeps the cookie.
CallbackBind(r) ==
    /\ req[r].kind = "callback" /\ req[r].pc = "bind"
    /\ LET header == setCustomerTokenId(CookieHeader, req[r].created)
       IN  /\ req' = [req EXCEPT ![r] =
                        Return(Did(req[r], "bound"),
                               Redirect("/customer-account-api/order-list",
                                        header))]
           /\ jar' = header
    /\ UNCHANGED <<codeVerifier, customerAccessToken, now>>

\* -------------------------------------------------- order-list loader

\* GET /customer-account-api/order-list: the tokenId is read from the
\* session; prisma.customerAccessToken.findUnique is awaited.
OrderListArrive(r) ==
    /\ CanArrive(r)
    /\ LET tokenId == getCustomerTokenId(CookieHeader)
           q == Arrived("order-list")
       IN  req' = [req EXCEPT ![r] =
                     IF tokenId = 0
                     THEN Throw(q, ErrNoAuth)
                     ELSE [q EXCEPT !.pc = "find", !.tokenId = tokenId]]
    /\ UNCHANGED <<codeVerifier, customerAccessToken, jar, now>>

\* A record without expiry counts as expired.
Expired_NullIsExpired(token) ==
    token.expiresAt = None \/ now > token.expiresAt[1]

\* The comparison the wrong way round.
Expired_Reversed(token) == token.expiresAt # None /\ now < token.expiresAt[1]

\* customerAccessToken.expiresAt && new Date() > customerAccessToken.expiresAt
Expired(token) == token.expiresAt # None /\ now > token.expiresAt[1]

\* findUnique returns; the record is checked and the fetch of the
\* Customer Account API configuration is awaited.
OrderListFind(r) ==
    /\ req[r].kind = "order-list" /\ req[r].pc = "find"
    /\ \/ req' = [req EXCEPT ![r] = Throw(req[r], ErrStorage)]
       \/ LET token == TokenFindUnique(customerAccessToken, req[r].tokenId)
              q == Did(req[r], "read")
          IN  req' = [req EXCEPT ![r] =
                        IF token = NoToken THEN Throw(q, ErrTokenNotFound)
                        ELSE IF Expired(token) THEN Throw(q, ErrExpired)
                        ELSE Did([q EXCEPT !.pc = "disc", !.token = token],
                                 "discovery")]
    /\ UNCHANGED <<codeVerifier, customerAccessToken, jar, now>>

\* The loader's data on success.
OrderListData(token) ==
    [ success |-> TRUE, tokenId |-> token.id,
      accessToken |-> token.accessToken, shop |-> token.shop,
      graphqlApiUrl |-> "graphql_api", expiresAt |-> token.expiresAt ]

\* The configuration fetch returns.
OrderListDiscovery(r) ==
    /\ req[r].kind = "order-list" /\ req[r].pc = "disc"
    /\ \/ req' = [req EXCEPT ![r] = Throw(req[r], ErrFetch)]
       \/ \E response \in HttpResponses :
            LET q == Fetched(req[r], response)
            IN  req' = [req EXCEPT ![r] =
                          IF NotOk(response)
                          THEN Throw(q, ErrApiConfig(response.statusText))
                          ELSE Return(q, Data(OrderListData(q.token)))]
    /\ UNCHANGED <<codeVerifier, customerAccessToken, jar, now>>

\* ------------------------------------------------------ session, clock

\* destroyCustomerSession(request): the Set-Cookie header it returns makes
\* the browser drop the cookie.
DestroyCustomerSession ==
    /\ jar # NoCookie
    /\ jar' = NoCookie
    /\ UNCHANGED <<req, codeVerifier, customerAccessToken, now>>

\* A request is answered within one step of the clock.
Quiet == \A r \in Requests : req[r].pc \in {"idle", "done"}

Tick ==
    /\ Quiet
    /\ now + TickStep <= MaxTime
    /\ now' = now + TickStep
    /\ UNCHANGED <<req, codeVerifier, customerAccessToken, jar>>

Next ==
    \/ \E r \in Requests : AuthArrive(r)
    \/ \E r \in Requests : AuthDiscovery(r)
    \/ \E r \in Requests : AuthStore(r)
    \/ \E r \in Requests : CallbackArrive(r)
    \/ \E r \in Requests : CallbackFind(r)
    \/ \E r \in Requests : CallbackDiscovery(r)
    \/ \E r \in Requests : CallbackExchange(r)
    \/ \E r \in Requests : CallbackCreate(r)
    \/ \E r \in Requests : CallbackDelete(r)
    \/ \E r \in Requests : CallbackBind(r)
    \/ \E r \in Requests : OrderListArrive(r)
    \/ \E r \in Requests : OrderListFind(r)
    \/ \E r \in Requests : OrderListDiscovery(r)
    \/ DestroyCustomerSession
    \/ Tick

Spec == Init /\ [][Next]_vars

\* Every call a loader awaits (a Prisma query, a fetch, the session helper)
\* eventually returns, and the loader then runs on: some request in flight
\* takes its next step.
Resume ==
    \E r \in Requests :
        \/ AuthDiscovery(r) \/ AuthStore(r)
        \/ CallbackFind(r) \/ CallbackDiscovery(r) \/ CallbackExchange(r)
        \/ CallbackCreate(r) \/ CallbackDelete(r) \/ CallbackBind(r)
        \/ OrderListFind(r) \/ OrderListDiscovery(r)

FairSpec == Spec /\ WF_vars(Resume)

\* ------------------------------------- the order-list loader on its own

\* The session cookie is kept by the browser and the AccessToken records by
\* the database; the loader takes whatever cookie the request presents and
\* looks its id up in whatever the table holds (the table as the migration
\* creates it is empty, while a cookie issued before lives on for an hour).
\* Here the loader runs against every such pair: a table of records created
\* for some ids with some expiry, and a cookie holding any id or none.
TokenTable(ids, expiresAt) ==
    {TokenFindUnique(TokenCreate({}, id, ProviderToken(id), expiresAt), id) :
        id \in ids}

InitOrderList ==
    /\ now = 0
    /\ req = [r \in Requests |-> Idle]
    /\ codeVerifier = {}
    /\ \E ids \in SUBSET Requests, expires_in \in ExpiresIn :
          customerAccessToken = TokenTable(ids, ExpiresAt(expires_in))
    /\ \E id \in Requests \cup {0} :
          jar = IF id = 0 THEN NoCookie ELSE setCustomerTokenId(NoCookie, id)

NextOrderList ==
    \/ \E r \in Requests : OrderListArrive(r)
    \/ \E r \in Requests : OrderListFind(r)
    \/ \E r \in Requests : OrderListDiscovery(r)
    \/ DestroyCustomerSession
    \/ Tick

SpecOrderList == InitOrderList /\ [][NextOrderList]_vars

\* ================================================================ claims

IsKind(r, kind) == req[r].kind = kind
InLog(q, what) == \E i \in 1..Len(q.log) : q.log[i] = what
Failure(error) == Data([success |-> FALSE, error |-> error])
TokenOf(table, id) == {t \in table : t.id = id}
Stepped(r, from, to) == req[r].pc = from /\ req'[r].pc = to

\* C1 (as claimed): two callbacks presenting the same state never both hold
\* the verifier record stored for that state.
C1_NoDoubleUse ==
    \A r1, r2 \in Requests :
        ( /\ r1 # r2
          /\ IsKind(r1, "callback") /\ IsKind(r2, "callback")
          /\ req[r1].state = req[r2].state
          /\ req[r1].codeVerifierRecord # NoRecord )
        => req[r2].codeVerifierRecord # req[r1].codeVerifierRecord

C3_AbsentStateFails ==
    /\ [](\A r \in Requests :
            InLog(req[r], "notfound")
            => /\ req[r].pc = "done"
               /\ req[r].resp = Failure(ErrInvalidState)
               /\ ~InLog(req[r], "discovery") /\ ~InLog(req[r], "exchange")
               /\ TokenOf(customerAccessToken, r) = {})
    /\ [][ \A r \in Requests :
             ( /\ IsKind(r, "callback")
               /\ req[r].pc = "find" /\ req'[r].pc # "find"
               /\ \A rec \in codeVerifier : rec.state # req[r].state
               /\ req'[r].thrown # Some(ErrStorage) )
             => /\ InLog(req'[r], "notfound")
                /\ customerAccessToken' = customerAccessToken ]_vars

C3_Witness ==
    \E r \in Requests :
        /\ IsKind(r, "callback") /\ req[r].state \in States
        /\ InLog(req[r], "notfound")

\* C4: a callback without the code or without the state parameter answers
\* {success:false, error:"Missing code or state parameter"} and leaves the
\* verifier store, the token store and the session as they are.
C4_MissingParameter ==
    /\ [](\A r \in Requests :
            (IsKind(r, "callback") /\ (req[r].code = Null \/ req[r].state = Null))
            => /\ req[r].pc = "done"
               /\ req[r].resp = Failure(ErrMissingParam)
               /\ req[r].log = <<>>
               /\ TokenOf(customerAccessToken, r) = {})
    /\ [][ \A r \in Requests :
             ( /\ req[r].pc = "idle" /\ req'[r].kind = "callback"
               /\ (req'[r].code = Null \/ req'[r].state = Null) )
             => UNCHANGED <<codeVerifier, customerAccessToken, jar>> ]_vars

C4_Witness ==
    \E r1, r2 \in Requests :
        /\ IsKind(r1, "callback") /\ req[r1].code = Null /\ req[r1].state # Null
        /\ IsKind(r2, "callback") /\ req[r2].code # Null /\ req[r2].state = Null
        /\ codeVerifier # {}

\* C5: an initiation whose discovery fetch is answered with a non-success
\* status fails with an error embedding the status text, stores no verifier
\* record and issues no redirect.
C5_DiscoveryFailure ==
    \A r \in Requests, response \in HttpResponses :
        (IsKind(r, "auth") /\ ~response.ok /\ InLog(req[r], response.statusText))
        => /\ req[r].pc = "done"
           /\ req[r].resp =
                Data([error |-> <<"Failed to fetch OpenID configuration: ",
                                  response.statusText>>])
           /\ ~InLog(req[r], "stored")
           /\ \A rec \in codeVerifier : rec.id # r

C5_Witness ==
    \E r \in Requests :
        IsKind(r, "auth") /\ InLog(req[r], "Internal Server Error")

\* C6: when the order-list loader reads an AccessToken record whose
\* expiresAt is set and earlier than the current time, it answers with the
\* expired-token error, not with success or the bearer secret, and the
\* record stays in the store.
C6_ExpiredRejected ==
    [][ \A r \in Requests :
          ( /\ IsKind(r, "order-list")
            /\ req[r].pc = "find" /\ req'[r].pc # "find"
            /\ InLog(req'[r], "read") )
          => \A t \in TokenOf(customerAccessToken, req[r].tokenId) :
                (t.expiresAt # None /\ now > t.expiresAt[1])
                => /\ req'[r].pc = "done"
                   /\ req'[r].resp = Failure(ErrExpired)
                   /\ t \in customerAccessToken' ]_vars

C6_Witness ==
    \E r \in Requests :
        /\ IsKind(r, "order-list") /\ req[r].pc = "done"
        /\ req[r].resp = Failure(ErrExpired)
        /\ \E t \in TokenOf(customerAccessToken, req[r].tokenId) :
              t.expiresAt # None /\ now > t.expiresAt[1]

\* C7 (as claimed): a callback whose token endpoint answers {access_token: T,
\* expires_in: L} creates exactly one AccessToken record, with accessToken T
\* and expiresAt now + L; the cookie of its redirect holds that record's id,
\* and the tokenId a later order-list request reads is such an id.
C7_EndToEnd ==
    /\ \A r \in Requests :
         ( /\ IsKind(r, "callback") /\ req[r].pc \in {"delete", "bind"}
           /\ req[r].tokenData.expires_in # None )
         => /\ Cardinality(TokenOf(customerAccessToken, req[r].created)) = 1
            /\ \A t \in TokenOf(customerAccessToken, req[r].created) :
                  /\ t.accessToken = req[r].tokenData.access_token
                  /\ t.expiresAt = Some(now + req[r].tokenData.expires_in[1])
    /\ \A r \in Requests :
         (IsKind(r, "callback") /\ req[r].resp.kind = "redirect")
         => /\ req[r].resp.setCookie.customerTokenId = r
            /\ Cardinality(TokenOf(customerAccessToken, r)) = 1
    /\ \A q \in Requests :
         (IsKind(q, "order-list") /\ req[q].tokenId # 0)
         => \E r \in Requests :
               /\ IsKind(r, "callback") /\ req[r].resp.kind = "redirect"
               /\ req[r].resp.setCookie.customerTokenId = req[q].tokenId

\* C8 (as claimed): every failure raised in a handler is answered with
\* {success:false, error}.
C8_StructuredFailure ==
    \A r \in Requests :
        req[r].thrown # None
        => req[r].pc = "done" /\ req[r].resp = Failure(req[r].thrown[1])

Succeeded(resp) ==
    \/ resp.kind = "redirect"
    \/ /\ resp.kind = "data"
       /\ "success" \in DOMAIN resp.data
       /\ resp.data.success

\* C8 (amended): every failure raised in a handler is caught and answered
\* with the error's message, as {success:false, error} by the callback and
\* the order list and as {error} (no success field) by the initiation; a
\* request that raised a failure never gets a success answer, and one that
\* raised none gets one.
C8_FailuresCaught ==
    \A r \in Requests :
        /\ req[r].thrown # None
           => /\ req[r].pc = "done"
              /\ req[r].resp =
                   IF IsKind(r, "auth")
                   THEN Data([error |-> req[r].thrown[1]])
                   ELSE Data([success |-> FALSE, error |-> req[r].thrown[1]])
              /\ ~Succeeded(req[r].resp)
        /\ (req[r].pc = "done" /\ req[r].thrown = None)
           => Succeeded(req[r].resp)

C8_Witness ==
    \E r1, r2, r3 \in Requests :
        /\ IsKind(r1, "auth") /\ req[r1].thrown # None
        /\ IsKind(r2, "callback") /\ req[r2].thrown # None
        /\ IsKind(r3, "order-list") /\ req[r3].thrown # None

\* C9: a step never removes or changes an AccessToken record; the table
\* changes only by the create of a callback, which adds one record under a
\* new id; an order-list request leaves the table as it is.
C9_TokensImmutable ==
    [][ /\ customerAccessToken \subseteq customerAccessToken'
        /\ \A t1, t2 \in customerAccessToken' : t1.id = t2.id => t1 = t2
        /\ customerAccessToken' # customerAccessToken
           => \E r \in Requests :
                 /\ IsKind(r, "callback") /\ Stepped(r, "create", "delete")
                 /\ Cardinality(customerAccessToken') =
                        Cardinality(customerAccessToken) + 1
        /\ \A r \in Requests :
             (req'[r].kind = "order-list" /\ req'[r] # req[r])
             => customerAccessToken' = customerAccessToken ]_vars

C9_Witness ==
    \E r \in Requests :
        /\ IsKind(r, "order-list") /\ req[r].pc = "done"
        /\ Succeeded(req[r].resp)
        /\ jar = NoCookie
        /\ TokenOf(customerAccessToken, req[r].tokenId) # {}

\* C10: a callback that answers with the redirect carrying Set-Cookie has
\* resolved the verifier, exchanged the code, persisted the AccessToken,
\* deleted the verifier record and bound the session, in that order; when it
\* answers, its AccessToken record exists and the verifier record it
\* resolved is gone; right after its delete no record for its state remains;
\* and the cookie is set by no other step.
C10_CallbackOrder ==
    /\ [](\A r \in Requests :
            (IsKind(r, "callback") /\ req[r].resp.kind = "redirect")
            => /\ req[r].log = <<"resolved", "discovery", "OK", "exchange",
                                 "OK", "persisted", "deleted", "bound">>
               /\ req[r].resp.setCookie.customerTokenId = r
               /\ TokenOf(customerAccessToken, r) # {})
    /\ [][ /\ \A r \in Requests :
                (IsKind(r, "callback") /\ Stepped(r, "delete", "bind"))
                => /\ TokenOf(customerAccessToken, req[r].created) # {}
                   /\ \A rec \in codeVerifier' : rec.state # req[r].state
           /\ \A r \in Requests :
                (IsKind(r, "callback") /\ Stepped(r, "bind", "done"))
                => /\ req'[r].resp.kind = "redirect"
                   /\ jar' = req'[r].resp.setCookie
                   /\ TokenOf(customerAccessToken', req[r].created) # {}
                   /\ req[r].codeVerifierRecord \notin codeVerifier'
           /\ (jar' # jar /\ jar' # NoCookie)
              => \E r \in Requests :
                    IsKind(r, "callback") /\ Stepped(r, "bind", "done") ]_vars

C10_Witness ==
    \E r \in Requests :
        /\ IsKind(r, "callback") /\ req[r].resp.kind = "redirect"
        /\ \E a \in Requests :
              /\ IsKind(a, "auth") /\ a > r /\ req[a].resp.kind = "redirect"
              /\ req[a].resp.location.state = req[r].state

\* C11: an initiation answers with the redirect to the provider only at the
\* step where its {state -> verifier} record is written: the redirect
\* carries state S and challenge C, and the store then holds a record for S,
\* written by this initiation, whose verifier V has C = challenge(V); an
\* initiation whose write failed has issued no redirect and stored nothing.
C11_RedirectAfterStore ==
    /\ [](\A r \in Requests :
            /\ (IsKind(r, "auth") /\ req[r].resp.kind = "redirect")
               => req[r].log = <<"discovery", "OK", "stored">>
            /\ ( /\ IsKind(r, "auth")
                 /\ req[r].thrown \in {Some(ErrStorage), Some(ErrUnique)} )
               => /\ req[r].resp = Data([error |-> req[r].thrown[1]])
                  /\ \A rec \in codeVerifier : rec.id # r)
    /\ [][ \A r \in Requests :
             ( /\ IsKind(r, "auth") /\ req[r].pc # "done"
               /\ req'[r].resp.kind = "redirect" )
             => \E rec \in codeVerifier' \ codeVerifier :
                   /\ rec.id = r
                   /\ rec.state = req'[r].resp.location.state
                   /\ generateCodeChallenge(rec.verifier) =
                         req'[r].resp.location.code_challenge
                   /\ \A other \in codeVerifier' :
                         other.state = rec.state => other = rec ]_vars

\* C11 witness: one initiation has been redirected with its record stored,
\* and the write of another has failed.
C11_Witness ==
    \E r1, r2 \in Requests :
        /\ IsKind(r1, "auth") /\ req[r1].resp.kind = "redirect"
        /\ \E rec \in codeVerifier :
              /\ rec.id = r1 /\ rec.state = req[r1].resp.location.state
              /\ generateCodeChallenge(rec.verifier) =
                    req[r1].resp.location.code_challenge
        /\ IsKind(r2, "auth") /\ req[r2].thrown = Some(ErrStorage)

\* C12 (as claimed): the expiry a callback computes from a token response,
\* and the expiresAt of the record it stores, is now + L when the response
\* has expires_in = L (for every L >= 0), and is absent exactly when the
\* response omits expires_in.
C12_ExpiryComputed ==
    \A r \in Requests :
        (IsKind(r, "callback") /\ req[r].pc \in {"create", "delete", "bind"})
        => LET expires_in == req[r].tokenData.expires_in
               expected == IF expires_in = None THEN None
                           ELSE Some(now + expires_in[1])
           IN  /\ req[r].expiresAt = expected
               /\ \A t \in TokenOf(customerAccessToken, req[r].created) :
                     t.expiresAt = expected

\* C13: an order-list request whose session references an AccessToken
\* stored without expiry never gets the expired-token error, whatever the
\* time: once it has read the record it has passed the expiry check and gone
\* on to the configuration fetch.
C13_NoExpiryPerpetual ==
    \A r \in Requests :
        ( /\ IsKind(r, "order-list") /\ req[r].tokenId # 0
          /\ \E t \in TokenOf(customerAccessToken, req[r].tokenId) :
                t.expiresAt = None )
        => /\ req[r].thrown # Some(ErrExpired)
           /\ InLog(req[r], "read")
              => /\ req[r].log[2] = "discovery"
                 /\ req[r].thrown \notin {Some(ErrExpired), Some(ErrTokenNotFound)}

\* C13 witness: some time after the session was bound, an order-list request
\* has been answered with the data of a record that has no expiry.
C13_Witness ==
    \E r \in Requests :
        /\ IsKind(r, "order-list") /\ req[r].pc = "done"
        /\ Succeeded(req[r].resp)
        /\ req[r].resp.data.expiresAt = None
        /\ jar.customerTokenId = req[r].tokenId /\ now > jar.issued

\* C14: the token POST of a callback carries the code the callback presented
\* and, as code_verifier, the verifier of the record found for the state it
\* presented, which is the verifier an initiation stored under that state
\* (the one whose challenge that initiation sent to the provider); a
\* callback whose lookup found no record sends no token POST.
C14_ExchangeCarriesVerifier ==
    \A r \in Requests :
        IsKind(r, "callback")
        => /\ InLog(req[r], "exchange")
              => req[r].log[1] = "resolved" /\ ~InLog(req[r], "notfound")
           /\ req[r].pc = "exch" => req[r].tokenRequest # NoTokenRequest
           /\ req[r].tokenRequest # NoTokenRequest
              => /\ InLog(req[r], "exchange")
                 /\ req[r].tokenRequest.code = req[r].code
                 /\ req[r].tokenRequest.code # Null
                 /\ req[r].tokenRequest.code_verifier =
                       req[r].codeVerifierRecord.verifier
                 /\ req[r].codeVerifierRecord.state = req[r].state
                 /\ \E a \in Requests :
                       /\ IsKind(a, "auth") /\ InLog(req[a], "stored")
                       /\ a = req[r].codeVerifierRecord.id
                       /\ req[a].resp.location.state = req[r].state
                       /\ req[a].resp.location.code_challenge =
                             generateCodeChallenge(
                                 req[r].tokenRequest.code_verifier)

\* C14 witness: two initiations have stored verifiers under different
\* states, and the token POST of a callback presenting the second state is
\* in flight.
C14_Witness ==
    \E a1, a2, r \in Requests :
        /\ a1 < a2
        /\ IsKind(a1, "auth") /\ InLog(req[a1], "stored")
        /\ IsKind(a2, "auth") /\ InLog(req[a2], "stored")
        /\ IsKind(r, "callback") /\ req[r].pc = "exch"
        /\ req[r].state = req[a2].resp.location.state
        /\ req[r].tokenRequest.code_verifier = generateCodeVerifier(a2)

\* C15: the verifier store never holds two records with the same state; an
\* initiation whose generated state already has a record fails at the store
\* step, answers with an error and no redirect, and leaves the store, with
\* the record already there, as it is.
C15_OneRecordPerState ==
    /\ [](\A rec1, rec2 \in codeVerifier :
            rec1.state = rec2.state => rec1 = rec2)
    /\ [](\A r \in Requests :
            (IsKind(r, "auth") /\ req[r].thrown = Some(ErrUnique))
            => /\ req[r].resp = Data([error |-> ErrUnique])
               /\ ~InLog(req[r], "stored")
               /\ \A rec \in codeVerifier : rec.id # r)
    /\ [][ \A r \in Requests :
             ( /\ IsKind(r, "auth") /\ Stepped(r, "store", "done")
               /\ \E rec \in codeVerifier : rec.state = req[r].gen.state )
             => /\ codeVerifier' = codeVerifier
                /\ req'[r].thrown \in {Some(ErrUnique), Some(ErrStorage)}
                /\ req'[r].resp.kind = "data" ]_vars

\* C15 witness: an initiation has failed on the unique index while the
\* record of an earlier initiation is in the store.
C15_Witness ==
    \E r \in Requests :
        /\ IsKind(r, "auth") /\ req[r].thrown = Some(ErrUnique)
        /\ \E rec \in codeVerifier :
              rec.id < r /\ rec.verifier = generateCodeVerifier(rec.id)

\* C16: the order-list loader checks its preconditions in order.  A request
\* whose session holds no token id fails with the missing-authentication
\* error without reading the token store; a request whose session holds an
\* id that no AccessToken record has fails with 'Access token not found';
\* neither makes a discovery request, and neither is answered with a bearer
\* secret.
C16_Preconditions ==
    /\ [](\A r \in Requests :
            IsKind(r, "order-list")
            => /\ req[r].tokenId = 0
                  => /\ req[r].pc = "done" /\ req[r].log = <<>>
                     /\ req[r].resp = Failure(ErrNoAuth)
               /\ req[r].thrown = Some(ErrTokenNotFound)
                  => /\ req[r].pc = "done" /\ req[r].log = <<"read">>
                     /\ req[r].tokenId # 0
                     /\ TokenOf(customerAccessToken, req[r].tokenId) = {}
                     /\ req[r].resp = Failure(ErrTokenNotFound))
    /\ [][ \A r \in Requests :
             /\ ( /\ req[r].pc = "idle" /\ req'[r].kind = "order-list"
                  /\ getCustomerTokenId(CookieHeader) = 0 )
                => req'[r].thrown = Some(ErrNoAuth)
             /\ ( /\ IsKind(r, "order-list")
                  /\ req[r].pc = "find" /\ req'[r].pc # "find"
                  /\ TokenOf(customerAccessToken, req[r].tokenId) = {}
                  /\ req'[r].thrown # Some(ErrStorage) )
                => req'[r].thrown = Some(ErrTokenNotFound) ]_vars

\* C16 witness: one request came without a token id and one with an id that
\* none of the records in the table has.
C16_Witness ==
    \E r1, r2 \in Requests :
        /\ IsKind(r1, "order-list") /\ req[r1].thrown = Some(ErrNoAuth)
        /\ IsKind(r2, "order-list")
        /\ req[r2].thrown = Some(ErrTokenNotFound)
        /\ customerAccessToken # {}

\* C17: the session's lifetime and the token's expiry do not depend on each
\* other.  An arriving order-list request gets the session's token id
\* exactly while the cookie is younger than 3600 seconds, whatever the
\* token's expiry, and the missing-authentication error otherwise; the
\* record it then reads is rejected as expired exactly when its expiresAt
\* is set and past, whatever the cookie's age; setting, destroying or
\* outliving the cookie changes no AccessToken record, and creating a
\* record changes no cookie.
C17_IndependentExpiries ==
    [][ /\ \A r \in Requests :
             (req[r].pc = "idle" /\ req'[r].kind = "order-list")
             => IF jar # NoCookie /\ now < jar.issued + SessionMaxAge
                THEN /\ req'[r].pc = "find"
                     /\ req'[r].tokenId = jar.customerTokenId
                ELSE /\ req'[r].pc = "done"
                     /\ req'[r].resp = Failure(ErrNoAuth)
        /\ \A r \in Requests :
             ( /\ IsKind(r, "order-list")
               /\ req[r].pc = "find" /\ InLog(req'[r], "read") )
             => \A t \in TokenOf(customerAccessToken, req[r].tokenId) :
                   IF t.expiresAt # None /\ now > t.expiresAt[1]
                   THEN req'[r].resp = Failure(ErrExpired)
                   ELSE req'[r].pc = "disc" /\ req'[r].thrown = None
        /\ (jar' # jar \/ now' # now)
           => customerAccessToken' = customerAccessToken
        /\ customerAccessToken' # customerAccessToken => jar' = jar
        /\ jar' # jar
           => \/ jar' = NoCookie
              \/ jar'.issued = now /\ jar'.customerTokenId # 0 ]_vars

\* C17 witness: the session has expired while the token it references, which
\* has an expiry, is still valid, and an order-list request has been
\* answered with the missing-authentication error.
C17_Witness ==
    \E r \in Requests :
        /\ IsKind(r, "order-list") /\ req[r].pc = "done"
        /\ req[r].resp = Failure(ErrNoAuth)
        /\ jar # NoCookie /\ now >= jar.issued + SessionMaxAge
        /\ \E t \in TokenOf(customerAccessToken, jar.customerTokenId) :
              t.expiresAt # None /\ now <= t.expiresAt[1]

Count(q, what) == Cardinality({i \in 1..Len(q.log) : q.log[i] = what})

\* C18: no retries and no background work.  Provided the calls it awaits
\* return, every request that has arrived is answered; it is answered once
\* (a redirect or an error payload for the initiation and the callback, the
\* data or an error payload for the order list), having sent at most one
\* discovery request and, a callback only, at most one token-exchange
\* request; once answered it takes no further step, and the stores change
\* only in a step of a request that is not yet answered.
C18_NoRetries ==
    /\ \A r \in Requests : (req[r].pc # "idle") ~> (req[r].pc = "done")
    /\ [](\A r \in Requests :
            /\ Count(req[r], "discovery") <= 1
            /\ Count(req[r], "exchange") <=
                  (IF IsKind(r, "callback") THEN 1 ELSE 0)
            /\ req[r].pc # "done" => req[r].resp = NoResponse
            /\ req[r].pc = "done"
               => \/ req[r].resp.kind = "redirect" /\ req[r].thrown = None
                  \/ /\ req[r].resp.kind = "data" /\ req[r].thrown # None
                     /\ req[r].resp.data.error = req[r].thrown[1]
                  \/ /\ IsKind(r, "order-list") /\ req[r].thrown = None
                     /\ req[r].resp.kind = "data")
    /\ [][ /\ \A r \in Requests : req[r].pc = "done" => req'[r] = req[r]
           /\ ( \/ codeVerifier' # codeVerifier
                \/ customerAccessToken' # customerAccessToken )
              => \E r \in Requests :
                    /\ req[r].pc \notin {"idle", "done"}
                    /\ req'[r] # req[r]
                    /\ \A q \in Requests \ {r} : req'[q] = req[q] ]_vars

\* C18 witness: every request has been answered, among them a callback that
\* sent its discovery request and its token exchange.
C18_Witness ==
    /\ \A r \in Requests : req[r].pc = "done"
    /\ \E r \in Requests :
          /\ IsKind(r, "callback")
          /\ Count(req[r], "discovery") = 1 /\ Count(req[r], "exchange") = 1

\* C19 (as claimed): a callback answered with {success:false, error} has
\* created no AccessToken record and set no session cookie.
C19_FailureCreatedNothing ==
    \A r \in Requests :
        ( /\ IsKind(r, "callback") /\ req[r].pc = "done"
          /\ req[r].thrown # None
          /\ req[r].resp = Failure(req[r].thrown[1]) )
        => /\ TokenOf(customerAccessToken, r) = {}
           /\ jar.customerTokenId # r

\* C20 (as claimed): for a state stored by one initiation, the callbacks
\* presenting that state have created at most one AccessToken record.
C20_OneTokenPerState ==
    \A state \in States :
        Cardinality({a \in Requests :
                        /\ IsKind(a, "auth") /\ InLog(req[a], "stored")
                        /\ req[a].resp.location.state = state}) = 1
        => Cardinality({t \in customerAccessToken :
                           /\ IsKind(t.id, "callback")
                           /\ req[t.id].state = state}) <= 1

\* C21: a token id held in a session bound by a callback is the id of an
\* AccessToken record in the store: the cookie the browser holds, the cookie
\* of every callback's redirect and the id an order-list request took from
\* its session all refer to a record.  Such a request is never answered
\* with 'Access token not found'; once its lookup has answered it fails, if
\* it fails, with the expired-token error or with an error of the discovery
\* fetch.
C21_SessionIdsResolve ==
    /\ jar.customerTokenId # 0
       => TokenOf(customerAccessToken, jar.customerTokenId) # {}
    /\ \A r \in Requests :
         /\ (IsKind(r, "callback") /\ req[r].resp.kind = "redirect")
            => TokenOf(customerAccessToken,
                       req[r].resp.setCookie.customerTokenId) # {}
         /\ (IsKind(r, "order-list") /\ req[r].tokenId # 0)
            => /\ TokenOf(customerAccessToken, req[r].tokenId) # {}
               /\ req[r].thrown # Some(ErrTokenNotFound)
               /\ req[r].thrown # Some(ErrNoAuth)
               /\ (InLog(req[r], "read") /\ req[r].thrown # None)
                  => \/ req[r].thrown = Some(ErrExpired)
                     \/ req[r].thrown = Some(ErrFetch)
                     \/ \E response \in HttpResponses :
                           req[r].thrown =
                               Some(ErrApiConfig(response.statusText))

\* C21 witness: the session was bound by a callback, and an order-list
\* request presenting it has read the record the callback created.
C21_Witness ==
    \E r \in Requests :
        /\ IsKind(r, "order-list") /\ InLog(req[r], "read")
        /\ req[r].tokenId = jar.customerTokenId
        /\ TokenOf(customerAccessToken, req[r].tokenId) # {}
        /\ \E c \in Requests : IsKind(c, "callback") /\ req[r].tokenId = c

====
